---------------------------- MODULE Spec2Model ----------------------------
(***************************************************************************)
(* figo.models: records hydrated from decoded JSON objects (from_dict),    *)
(* serialised back through a per-type allow-list (dump).                   *)
(*                                                                         *)
(* Python values are tagged records, so that values of different Python    *)
(* types are comparable and never equal.                                   *)
(***************************************************************************)
EXTENDS Integers, Sequences, FiniteSets, TLC

VARIABLES cls, session, data, rec, dumped, rebuilt, nassign,
          naccess, lastaccess, ncalls, lastcall, returned, payload, exc,
          dumps, aliased

\* The caller's use of an Account's accessors: how many it has used and the
\* last one with the arguments it passed; the session handle's side: how many
\* calls it has received and the last one (method, arguments, outcome); and
\* what the last accessor gave back to the caller.
svars == <<naccess, lastaccess, ncalls, lastcall, returned>>

\* A decoded error response of the API and the exception made from it.
evars == <<payload, exc>>

\* What the dump() calls on the record have returned, in order, and whether
\* the mapping the caller holds is the record's own instance dictionary.
dvars == <<dumps, aliased>>

vars == <<cls, session, data, rec, dumped, rebuilt, nassign, svars, evars, dvars>>

-----------------------------------------------------------------------------
(* Python values *)

PyNone == [t |-> "None"]
PyStr(s) == [t |-> "str", s |-> s]
PyInt(n) == [t |-> "int", n |-> n]
PyBool(b) == [t |-> "bool", b |-> b]
PyList(q) == [t |-> "list", items |-> q]
PyDict(f) == [t |-> "dict", map |-> f]
PyDateTime(y, mo, d, h, mi, s, tz) ==
    [t |-> "datetime", y |-> y, mo |-> mo, d |-> d, h |-> h, mi |-> mi, sec |-> s, tz |-> tz]
PyMethod == [t |-> "method"]

\* An instance of a ModelBase subclass: its class, the session handle stored
\* by __init__, and the instance dictionary filled by setattr.
Obj(c, s, attrs) == [t |-> "obj", cls |-> c, session |-> s, attrs |-> attrs]

\* An exception leaving the call instead of a value.
Raise(e) == [t |-> "raise", exc |-> e]

IsRaise(v) == v.t = "raise"

EmptyMap == [k \in {} |-> PyNone]

\* bool(v) as Python's `if v:` computes it.  ModelBase defines neither
\* __bool__ nor __len__, so every instance is true; so is every datetime.
Truthy(v) ==
    CASE v.t = "None" -> FALSE
      [] v.t = "str" -> v.s # ""
      [] v.t = "int" -> v.n # 0
      [] v.t = "bool" -> v.b
      [] v.t = "list" -> Len(v.items) > 0
      [] v.t = "dict" -> DOMAIN v.map # {}
      [] OTHER -> TRUE

-----------------------------------------------------------------------------
(* The record types: declared fields (class attributes preset to None),    *)
(* allow-lists (__dump_attributes__) and the hydration steps of __init__,  *)
(* each in source order.                                                   *)

Classes ==
    {"User", "LoginSettings", "Account", "AccountBalance", "Payment",
     "StandingOrder", "Transaction", "Category", "CustomCategory",
     "PaymentPartner", "Notification", "SynchronizationStatus", "Sync",
     "WebhookNotification", "Credential", "Challenge", "Security"}

UserFields == {"id", "full_name", "email", "language", "created_at"}
LoginSettingsFields ==
    {"id", "name", "icon", "supported", "country", "language", "bic",
     "access_methods", "bank_code"}
AccountFields ==
    {"account_id", "account_number", "bank_code", "iban", "bic", "access_id",
     "bank_name", "icon", "currency", "balance", "type", "name", "owner",
     "auto_sync", "save_pin", "supported_payments", "is_jointly_managed",
     "status"}
AccountBalanceFields == {"balance", "balance_date", "status"}
PaymentFields ==
    {"payment_id", "account_id", "type", "name", "account_number", "bank_code",
     "bank_name", "bank_icon", "bank_additional_icons", "amount", "currency",
     "purpose", "submission_timestamp", "creation_timestamp",
     "modification_timestamp", "transaction_id"}
StandingOrderFields ==
    {"standing_order_id", "account_id", "iban", "amount", "currency", "cents",
     "name", "purpose", "execution_day", "first_execution_date",
     "last_execution_date", "interval", "created_at", "modified_at"}
TransactionFields ==
    {"account_id", "transaction_id", "amount", "currency", "account_number",
     "bank_code", "iban", "bic", "bank_name", "booked", "booked_at",
     "settled_at", "booking_key", "booking_text", "categories", "contract_id",
     "custom_category", "creditor_id", "end_to_end_reference",
     "mandate_reference", "name", "prima_nota_number", "purpose",
     "sepa_purpose_code", "sepa_remittance_info", "transaction_code",
     "payment_partner", "type", "additional_info", "created_at", "modified_at"}
CategoryFields == {"id", "parent_id", "name"}
CustomCategoryFields == {"id", "name"}
PaymentPartnerFields == {"id", "name"}
NotificationFields == {"notification_id", "observe_key", "notify_uri", "state"}
SynchronizationStatusFields == {"synced_at", "succeeded_at", "message"}
SyncFields ==
    {"id", "status", "state", "challenge", "error", "created_at", "started_at",
     "ended_at"}
WebhookNotificationFields == {"notification_id", "observe_key", "state", "data"}
CredentialFields == {"label", "masked", "optional"}
ChallengeFields ==
    {"id", "title", "label", "format", "data", "type", "location", "created_at"}
SecurityFields ==
    {"security_id", "account_id", "name", "isin", "wkn", "currency", "amount",
     "quantity", "amount_original_currency", "exchange_rate", "price",
     "price_currency", "purchase_price", "purchase_price_currency", "visited",
     "trade_timestamp", "creation_timestamp", "modification_timestamp"}

Fields(c) ==
    CASE c = "User" -> UserFields
      [] c = "LoginSettings" -> LoginSettingsFields
      [] c = "Account" -> AccountFields
      [] c = "AccountBalance" -> AccountBalanceFields
      [] c = "Payment" -> PaymentFields
      [] c = "StandingOrder" -> StandingOrderFields
      [] c = "Transaction" -> TransactionFields
      [] c = "Category" -> CategoryFields
      [] c = "CustomCategory" -> CustomCategoryFields
      [] c = "PaymentPartner" -> PaymentPartnerFields
      [] c = "Notification" -> NotificationFields
      [] c = "SynchronizationStatus" -> SynchronizationStatusFields
      [] c = "Sync" -> SyncFields
      [] c = "WebhookNotification" -> WebhookNotificationFields
      [] c = "Credential" -> CredentialFields
      [] c = "Challenge" -> ChallengeFields
      [] c = "Security" -> SecurityFields

\* __dump_attributes__ of each class, in declared order.
ModelBaseDumpAttributes == <<>>
\* The allow-list the TODO above User.__dump_attributes__ considers.
UserDumpAttributesWithEmail == <<"full_name", "language", "email">>
UserDumpAttributes == <<"full_name", "language">>
LoginSettingsDumpAttributes ==
    <<"id", "name", "icon", "supported", "country", "language", "bic",
      "access_methods", "bank_code">>
PaymentDumpAttributes ==
    <<"type", "name", "account_number", "bank_code", "amount", "currency",
      "purpose">>
\* A StandingOrder that lists the fields a caller would submit.
StandingOrderDumpAttributesLikePayment ==
    <<"account_id", "iban", "amount", "currency", "name", "purpose">>
StandingOrderDumpAttributes == <<>>
TransactionDumpAttributes ==
    <<"account_id", "transaction_id", "amount", "currency", "account_number",
      "bank_code", "iban", "bic", "bank_name", "booked", "booked_at",
      "settled_at", "booking_key", "booking_text", "categories", "contract_id",
      "custom_category", "creditor_id", "end_to_end_reference",
      "mandate_reference", "name", "prima_nota_number", "purpose",
      "sepa_purpose_code", "sepa_remittance_info", "transaction_code",
      "payment_partner", "type", "additional_info", "created_at",
      "modified_at">>
CategoryDumpAttributes == <<"id", "parent_id", "name">>
CustomCategoryDumpAttributes == <<"id", "name">>
PaymentPartnerDumpAttributes == <<"id", "name">>
NotificationDumpAttributes == <<"observe_key", "notify_uri", "state">>
SynchronizationStatusDumpAttributes == <<>>
SyncDumpAttributes ==
    <<"id", "status", "state", "challenge", "error", "created_at",
      "started_at", "ended_at">>
WebhookNotificationDumpAttributes == <<>>
CredentialDumpAttributes == <<"label", "masked", "optional">>
ChallengeDumpAttributes ==
    <<"id", "title", "label", "format", "data", "type", "location",
      "created_at">>
SecurityDumpAttributes == <<>>

\* The class attribute __dump_attributes__ as attribute lookup on the class
\* finds it: Account and AccountBalance declare none and inherit ModelBase's.
DumpAttributes(c) ==
    CASE c = "User" -> UserDumpAttributes
      [] c = "LoginSettings" -> LoginSettingsDumpAttributes
      [] c = "Payment" -> PaymentDumpAttributes
      [] c = "StandingOrder" -> StandingOrderDumpAttributes
      [] c = "Transaction" -> TransactionDumpAttributes
      [] c = "Category" -> CategoryDumpAttributes
      [] c = "CustomCategory" -> CustomCategoryDumpAttributes
      [] c = "PaymentPartner" -> PaymentPartnerDumpAttributes
      [] c = "Notification" -> NotificationDumpAttributes
      [] c = "SynchronizationStatus" -> SynchronizationStatusDumpAttributes
      [] c = "Sync" -> SyncDumpAttributes
      [] c = "WebhookNotification" -> WebhookNotificationDumpAttributes
      [] c = "Credential" -> CredentialDumpAttributes
      [] c = "Challenge" -> ChallengeDumpAttributes
      [] c = "Security" -> SecurityDumpAttributes
      [] OTHER -> ModelBaseDumpAttributes

\* One statement `if self.f: self.f = ...` of an __init__.
Timestamp(f) == [field |-> f, kind |-> "timestamp", of |-> "datetime"]
Nested(f, c) == [field |-> f, kind |-> "nested", of |-> c]
NestedList(f, c) == [field |-> f, kind |-> "list", of |-> c]

User__init__ == <<Timestamp("created_at")>>
Account__init__ ==
    <<Nested("status", "SynchronizationStatus"),
      Nested("balance", "AccountBalance")>>
AccountBalance__init__ ==
    <<Nested("status", "SynchronizationStatus"), Timestamp("balance_date")>>
Payment__init__ ==
    <<Timestamp("submission_timestamp"), Timestamp("creation_timestamp"),
      Timestamp("modification_timestamp")>>
StandingOrder__init__ ==
    <<Timestamp("created_at"), Timestamp("modified_at"),
      Timestamp("first_execution_date"), Timestamp("last_execution_date")>>
Transaction__init__ ==
    <<Timestamp("created_at"), Timestamp("modified_at"),
      Timestamp("booked_at"), Timestamp("settled_at"),
      NestedList("categories", "Category"),
      Nested("custom_category", "CustomCategory"),
      Nested("payment_partner", "PaymentPartner")>>
SynchronizationStatus__init__ ==
    <<Timestamp("synced_at"), Timestamp("succeeded_at")>>
Sync__init__ ==
    <<Timestamp("created_at"), Timestamp("started_at"), Timestamp("ended_at"),
      Nested("challenge", "Challenge")>>
\* Security.__init__ without its last statement.
Security__init__WithoutModification ==
    <<Timestamp("trade_timestamp"), Timestamp("creation_timestamp")>>
Security__init__ ==
    <<Timestamp("trade_timestamp"), Timestamp("creation_timestamp"),
      Timestamp("modification_timestamp")>>

\* The same with a LoginSettings.__init__ that hydrates its credentials.
InitStepsHydratingCredentials(c) ==
    CASE c = "User" -> User__init__
      [] c = "LoginSettings" -> <<NestedList("credentials", "Credential")>>
      [] c = "Account" -> Account__init__
      [] c = "AccountBalance" -> AccountBalance__init__
      [] c = "Payment" -> Payment__init__
      [] c = "StandingOrder" -> StandingOrder__init__
      [] c = "Transaction" -> Transaction__init__
      [] c = "SynchronizationStatus" -> SynchronizationStatus__init__
      [] c = "Sync" -> Sync__init__
      [] c = "Security" -> Security__init__
      [] OTHER -> <<>>

\* The statements that follow super().__init__ in the class's __init__; a
\* class without its own __init__ runs ModelBase.__init__ alone.
InitSteps(c) ==
    CASE c = "User" -> User__init__
      [] c = "Account" -> Account__init__
      [] c = "AccountBalance" -> AccountBalance__init__
      [] c = "Payment" -> Payment__init__
      [] c = "StandingOrder" -> StandingOrder__init__
      [] c = "Transaction" -> Transaction__init__
      [] c = "SynchronizationStatus" -> SynchronizationStatus__init__
      [] c = "Sync" -> Sync__init__
      [] c = "Security" -> Security__init__
      [] OTHER -> <<>>

\* Read-only properties (no setter): setattr on an instance raises.
Properties(c) ==
    IF c = "Account" THEN {"payments", "transactions", "securities"} ELSE {}

\* Methods every instance finds on its class.
Methods(c) ==
    {"from_dict", "dump", "__init__", "__str__"}
        \cup (IF c = "Account"
              THEN {"get_payment", "get_transactions", "get_transaction",
                    "get_securities", "get_security"}
              ELSE {})

-----------------------------------------------------------------------------
(* dateutil.parser.parse, on the strings the model draws.  A string is      *)
(* parsed to the calendar value it denotes ('Z' gives an aware UTC value,   *)
(* no zone a naive one); two spellings of one instant parse to equal        *)
(* values.  Anything that is not a string raises TypeError, a string        *)
(* without a date (the empty string too) raises ParserError.                *)

ISO_2012 == "2012-04-19T17:25:54.000Z"
ISO_2018 == "2018-08-30T00:00:00.000Z"
ISO_2018_SHORT == "2018-08-30T00:00:00Z"
LOOSE_2014 == "2014-07-29 15:00:00"
NOT_A_DATE == "not a date"

WellFormedDates == {ISO_2012, ISO_2018, ISO_2018_SHORT, LOOSE_2014}

dateutil_parser_parse(timestr) ==
    IF timestr.t # "str" THEN Raise("TypeError")
    ELSE CASE timestr.s = ISO_2012 -> PyDateTime(2012, 4, 19, 17, 25, 54, "UTC")
           [] timestr.s = ISO_2018 -> PyDateTime(2018, 8, 30, 0, 0, 0, "UTC")
           [] timestr.s = ISO_2018_SHORT -> PyDateTime(2018, 8, 30, 0, 0, 0, "UTC")
           [] timestr.s = LOOSE_2014 -> PyDateTime(2014, 7, 29, 15, 0, 0, "naive")
           [] OTHER -> Raise("ParserError")

-----------------------------------------------------------------------------
(* Attribute access *)

PyStrList(q) == PyList([i \in 1..Len(q) |-> PyStr(q[i])])

\* getattr(self, name): the instance dictionary first, then the class.
getattr(self, name) ==
    IF name \in DOMAIN self.attrs THEN self.attrs[name]
    ELSE IF name = "session" THEN [t |-> "session", handle |-> self.session]
    ELSE IF name \in Fields(self.cls) THEN PyNone
    ELSE IF name = "__dump_attributes__" THEN PyStrList(DumpAttributes(self.cls))
    ELSE IF name \in Methods(self.cls) \cup Properties(self.cls) THEN PyMethod
    ELSE Raise("AttributeError")

\* setattr(self, name, value) on an instance, as a new instance value.
setattr(self, name, value) ==
    [self EXCEPT !.attrs =
        [k \in DOMAIN self.attrs \cup {name} |->
            IF k = name THEN value ELSE self.attrs[k]]]

-----------------------------------------------------------------------------
(* Construction: ModelBase.from_dict, ModelBase.__init__ and the            *)
(* subclasses' __init__.                                                    *)

RECURSIVE from_dict(_, _, _)
RECURSIVE RunInit(_, _, _)
RECURSIVE HydrateList(_, _, _, _)

\* ModelBase.__init__: self.session = session, then one setattr per key.
\* The call cls(session, **kwargs) itself raises TypeError when kwargs names
\* the parameter `session`; setattr raises AttributeError on a property.
ModelBase__init__(c, s, kwargs) ==
    IF "session" \in DOMAIN kwargs THEN Raise("TypeError")
    ELSE IF DOMAIN kwargs \cap Properties(c) # {} THEN Raise("AttributeError")
    ELSE Obj(c, s, kwargs)

\* The comprehension building its result back to front.
RECURSIVE HydrateListReversed(_, _, _, _)
HydrateListReversed(c, s, items, i) ==
    IF i > Len(items) THEN PyList(<<>>)
    ELSE LET head == from_dict(c, s, items[i])
         IN  IF IsRaise(head) THEN head
             ELSE LET tail == HydrateListReversed(c, s, items, i + 1)
                  IN  IF IsRaise(tail) THEN tail
                      ELSE PyList(tail.items \o <<head>>)

\* [C.from_dict(session, c) for c in value]: the elements in order, the first
\* exception leaving the comprehension.  A true value that is not a list
\* either cannot be iterated or yields elements that are no mappings.
HydrateList(c, s, items, i) ==
    IF i > Len(items) THEN PyList(<<>>)
    ELSE LET head == from_dict(c, s, items[i])
         IN  IF IsRaise(head) THEN head
             ELSE LET tail == HydrateList(c, s, items, i + 1)
                  IN  IF IsRaise(tail) THEN tail
                      ELSE PyList(<<head>> \o tail.items)

\* The right-hand side of one `self.f = ...` statement.
Convert(step, s, value) ==
    CASE step.kind = "timestamp" -> dateutil_parser_parse(value)
      [] step.kind = "nested" -> from_dict(step.of, s, value)
      [] step.kind = "list" ->
            IF value.t = "list" THEN HydrateList(step.of, s, value.items, 1)
            ELSE Raise("TypeError")

\* The statements after super().__init__, from statement i on: each field is
\* converted only when its value is true, and the first exception aborts the
\* construction.
RunInit(self, steps, i) ==
    IF i > Len(steps) THEN self
    ELSE LET step == steps[i]
             value == getattr(self, step.field)
         IN  IF ~Truthy(value) THEN RunInit(self, steps, i + 1)
             ELSE LET new == Convert(step, self.session, value)
                  IN  IF IsRaise(new) THEN new
                      ELSE RunInit(setattr(self, step.field, new), steps, i + 1)

\* cls.from_dict(session, data_dict) == cls(session, **data_dict); ** takes a
\* mapping only.
from_dict(c, s, data_dict) ==
    IF data_dict.t # "dict" THEN Raise("TypeError")
    ELSE LET self == ModelBase__init__(c, s, data_dict.map)
         IN  IF IsRaise(self) THEN self ELSE RunInit(self, InitSteps(c), 1)

-----------------------------------------------------------------------------
(* Serialisation: ModelBase.dump and Sync.dump *)

RECURSIVE dump(_)
RECURSIVE DumpLoop(_, _, _, _)

\* The loop testing `if value:` where the code tests `is not None`.
RECURSIVE DumpLoopSkippingFalse(_, _, _, _)
DumpLoopSkippingFalse(self, names, i, result) ==
    IF i > Len(names) THEN PyDict(result)
    ELSE IF names[i].t # "str" THEN Raise("TypeError")
    ELSE LET attribute == names[i].s
             value == getattr(self, attribute)
         IN  IF IsRaise(value) THEN value
             ELSE IF Truthy(value)
             THEN DumpLoopSkippingFalse(self, names, i + 1,
                           [k \in DOMAIN result \cup {attribute} |->
                               IF k = attribute THEN value ELSE result[k]])
             ELSE DumpLoopSkippingFalse(self, names, i + 1, result)

\* The loop of ModelBase.dump over attribute names, from name i on, adding
\* to result.
DumpLoop(self, names, i, result) ==
    IF i > Len(names) THEN PyDict(result)
    ELSE IF names[i].t # "str" THEN Raise("TypeError")
    ELSE LET attribute == names[i].s
             value == getattr(self, attribute)
         IN  IF IsRaise(value) THEN value
             ELSE IF value # PyNone
             THEN DumpLoop(self, names, i + 1,
                           [k \in DOMAIN result \cup {attribute} |->
                               IF k = attribute THEN value ELSE result[k]])
             ELSE DumpLoop(self, names, i + 1, result)

\* ModelBase.dump: self.__dump_attributes__ is looked up on the instance,
\* then on the class; iterating anything but a list of names raises.
ModelBase_dump(self) ==
    LET names == getattr(self, "__dump_attributes__")
    IN  IF names.t # "list" THEN Raise("TypeError")
        ELSE DumpLoop(self, names.items, 1, EmptyMap)

\* A Sync without its own dump.
Sync_dumpNotOverridden(self) == ModelBase_dump(self)

\* Sync.dump: the generic dump, then a true challenge is replaced by its own
\* dump(); a true challenge without a dump method raises AttributeError.
Sync_dump(self) ==
    LET dumped_value == ModelBase_dump(self)
        challenge == getattr(self, "challenge")
    IN  IF IsRaise(dumped_value) THEN dumped_value
        ELSE IF ~Truthy(challenge) THEN dumped_value
        ELSE IF challenge.t # "obj" THEN Raise("AttributeError")
        ELSE LET inner == dump(challenge)
             IN  IF IsRaise(inner) THEN inner
                 ELSE PyDict([k \in DOMAIN dumped_value.map \cup {"challenge"} |->
                                IF k = "challenge" THEN inner
                                ELSE dumped_value.map[k]])

\* self.dump(): an instance attribute named dump hides the method, and a
\* value taken from JSON is not callable.
dump(self) ==
    IF "dump" \in DOMAIN self.attrs THEN Raise("TypeError")
    ELSE IF self.cls = "Sync" THEN Sync_dump(self)
    ELSE ModelBase_dump(self)

-----------------------------------------------------------------------------
(* The decoded JSON objects the callers pass in *)

\* Bounds of the model.
MaxKeys == 2
MaxCategories == 2
MaxAssign == 1

Sessions == {"session_a", "session_b"}

\* The fields the API's schema gives a date string.
TimestampKeys(c) ==
    CASE c = "User" -> {"created_at"}
      [] c = "AccountBalance" -> {"balance_date"}
      [] c = "Payment" ->
            {"submission_timestamp", "creation_timestamp", "modification_timestamp"}
      [] c = "StandingOrder" ->
            {"created_at", "modified_at", "first_execution_date", "last_execution_date"}
      [] c = "Transaction" -> {"created_at", "modified_at", "booked_at", "settled_at"}
      [] c = "SynchronizationStatus" -> {"synced_at", "succeeded_at"}
      [] c = "Sync" -> {"created_at", "started_at", "ended_at"}
      [] c = "Security" ->
            {"trade_timestamp", "creation_timestamp", "modification_timestamp"}
      [] OTHER -> {}

\* The fields the schema gives one nested object, with the object's type.
NestedKeys(c) ==
    CASE c = "Account" -> {"status", "balance"}
      [] c = "AccountBalance" -> {"status"}
      [] c = "Transaction" -> {"custom_category", "payment_partner"}
      [] c = "Sync" -> {"challenge"}
      [] OTHER -> {}

\* The fields the schema gives a list of nested objects.
NestedListKeys(c) == IF c = "Transaction" THEN {"categories"} ELSE {}

NestedType(c, k) ==
    CASE k = "status" -> "SynchronizationStatus"
      [] k = "balance" -> "AccountBalance"
      [] k = "custom_category" -> "CustomCategory"
      [] k = "payment_partner" -> "PaymentPartner"
      [] k = "challenge" -> "Challenge"
      [] k = "categories" -> "Category"

\* Fields without a conversion that the source mappings mention: declared
\* ones inside and outside the allow-list, and keys no class declares.
PlainKeys(c) ==
    CASE c = "User" -> {"id", "full_name", "email", "language"}
      [] c = "LoginSettings" -> {"name", "supported", "credentials"}
      [] c = "Account" -> {"account_id", "name"}
      [] c = "AccountBalance" -> {"balance"}
      [] c = "Payment" -> {"payment_id", "name", "amount"}
      [] c = "StandingOrder" -> {"standing_order_id", "amount"}
      [] c = "Transaction" -> {"transaction_id", "amount"}
      [] c = "Category" -> {"id", "parent_id", "name"}
      [] c = "CustomCategory" -> {"id", "name"}
      [] c = "PaymentPartner" -> {"id", "name"}
      [] c = "Notification" -> {"notification_id", "observe_key", "state"}
      [] c = "SynchronizationStatus" -> {"message"}
      [] c = "Sync" -> {"id", "status"}
      [] c = "WebhookNotification" -> {"notification_id", "data"}
      [] c = "Credential" -> {"label", "masked"}
      [] c = "Challenge" -> {"id", "title", "created_at"}
      [] c = "Security" -> {"security_id", "amount"}

\* The fields the schema gives a value that hydration converts.
HydratableKeys(c) == TimestampKeys(c) \cup NestedKeys(c) \cup NestedListKeys(c)

InputKeys(c) == HydratableKeys(c) \cup PlainKeys(c) \cup {"extra"}

PlainValues ==
    {PyNone, PyStr("a"), PyStr(""), PyInt(0), PyBool(FALSE), PyList(<<>>)}

TimestampValues ==
    {PyNone, PyStr(""), PyStr(ISO_2018), PyStr(LOOSE_2014), PyStr(NOT_A_DATE)}

\* Mappings for the nested types.
NestedMaps(c) ==
    CASE c = "Category" ->
            {[id |-> PyInt(1), name |-> PyStr("a")],
             [id |-> PyInt(2), parent_id |-> PyInt(1), name |-> PyNone]}
      [] c = "CustomCategory" -> {[id |-> PyInt(1), name |-> PyStr("a")]}
      [] c = "PaymentPartner" -> {[id |-> PyStr("a"), extra |-> PyInt(0)]}
      [] c = "Challenge" ->
            {[id |-> PyInt(1), extra |-> PyStr("a")],
             [created_at |-> PyStr(ISO_2018), title |-> PyNone]}
      [] c = "SynchronizationStatus" ->
            {[message |-> PyStr("a")], [synced_at |-> PyStr(ISO_2018)],
             [succeeded_at |-> PyStr(NOT_A_DATE)]}
      [] c = "AccountBalance" ->
            {[balance |-> PyInt(0)], [balance_date |-> PyStr(LOOSE_2014)],
             [status |-> PyDict([synced_at |-> PyStr(ISO_2018)])],
             [status |-> PyDict(EmptyMap), balance_date |-> PyStr(NOT_A_DATE)]}

NestedValues(c) == {PyNone, PyDict(EmptyMap)} \cup {PyDict(m) : m \in NestedMaps(c)}

RECURSIVE SeqsUpTo(_, _)
SeqsUpTo(S, n) ==
    IF n = 0 THEN {<<>>}
    ELSE LET shorter == SeqsUpTo(S, n - 1)
         IN  shorter \cup {Append(q, x) : q \in shorter, x \in S}

ListValues(c) ==
    {PyNone} \cup
    {PyList(q) : q \in SeqsUpTo({PyDict(EmptyMap)} \cup {PyDict(m) : m \in NestedMaps(c)},
                                MaxCategories)}

\* Keys of a JSON object that are also names the class itself defines: the
\* class attribute holding the allow-list, and the dump method.
CollidingKeys == {"__dump_attributes__", "dump"}

\* A key of the class's mappings, for a list a source mapping puts under
\* __dump_attributes__.
SomeKey(c) == CHOOSE k \in PlainKeys(c) : TRUE

CollidingValues(c, k) ==
    IF k = "__dump_attributes__"
    THEN {PyList(<<>>), PyStrList(<<SomeKey(c)>>), PyInt(0)}
    ELSE {PyNone, PyStr("a")}

\* The values a source mapping holds under key k of class c.
Values(c, k) ==
    IF k \in CollidingKeys THEN CollidingValues(c, k)
    ELSE IF k \in TimestampKeys(c) THEN TimestampValues
    ELSE IF k \in NestedKeys(c) THEN NestedValues(NestedType(c, k))
    ELSE IF k \in NestedListKeys(c) THEN ListValues(NestedType(c, k))
    ELSE PlainValues

Extend(m, k, v) == [x \in DOMAIN m \cup {k} |-> IF x = k THEN v ELSE m[x]]

\* Every mapping over exactly the keys K, for class c.
RECURSIVE MapsOver(_, _)
MapsOver(c, K) ==
    IF K = {} THEN {EmptyMap}
    ELSE LET k == CHOOSE x \in K : TRUE
         IN  {Extend(m, k, v) : m \in MapsOver(c, K \ {k}), v \in Values(c, k)}

\* The mapping test_create_user_from_dict constructs.
UserExample ==
    [email |-> PyStr("demo@figo.me"), created_at |-> PyStr(ISO_2012),
     language |-> PyStr("en"), full_name |-> PyStr("John Doe"),
     id |-> PyStr("U12345")]

Examples(c) == IF c = "User" THEN {UserExample} ELSE {}

\* The mappings of at most n keys drawn from Keys.
InputsOver(c, Keys, n) ==
    UNION {MapsOver(c, K) : K \in {S \in SUBSET Keys : Cardinality(S) <= n}}

\* JSON objects in the shape of the API's schema.
Inputs(c) == Examples(c) \cup InputsOver(c, InputKeys(c), MaxKeys)

\* JSON objects with any keys, colliding ones too.
InputsAnyKeys(c) == InputsOver(c, InputKeys(c) \cup CollidingKeys, MaxKeys)

\* Values of the wrong structure for a nested-object field (anything but a
\* mapping) and for a list-of-objects field (anything but a list of
\* mappings).
ScalarValues ==
    {PyStr("a"), PyStr(""), PyInt(0), PyInt(1), PyBool(FALSE), PyBool(TRUE)}

MisshapedValues(c, k) ==
    IF k \in NestedKeys(c)
    THEN ScalarValues \cup {PyList(<<>>), PyList(<<PyDict(EmptyMap)>>)}
    ELSE IF k \in NestedListKeys(c)
    THEN ScalarValues \cup
             {PyDict(EmptyMap), PyDict([id |-> PyInt(1)]), PyList(<<PyInt(1)>>),
              PyList(<<PyDict(EmptyMap), PyStr("a")>>)}
    ELSE {}

\* Every mapping over exactly the keys K whose values may have the wrong
\* structure.
RECURSIVE MapsOverAnyShape(_, _)
MapsOverAnyShape(c, K) ==
    IF K = {} THEN {EmptyMap}
    ELSE LET k == CHOOSE x \in K : TRUE
         IN  {Extend(m, k, v) : m \in MapsOverAnyShape(c, K \ {k}),
                                v \in Values(c, k) \cup MisshapedValues(c, k)}

\* JSON objects over the schema's keys that need not have the schema's shape.
InputsAnyShape(c) ==
    UNION {MapsOverAnyShape(c, K) :
              K \in {S \in SUBSET InputKeys(c) : Cardinality(S) <= MaxKeys}}

\* The synchronization status as the API's other schema variant spells it,
\* and as test_create_sync_status_from_dict constructs it.
VariantTimestampKeys == {"sync_timestamp", "success_timestamp"}

SyncStatusExample ==
    [code |-> PyInt(-1), message |-> PyStr("Cannot load credential"),
     success_timestamp |-> PyStr(ISO_2012), sync_timestamp |-> PyStr(ISO_2018)]

VariantValues(k) ==
    IF k \in VariantTimestampKeys THEN TimestampValues
    ELSE Values("SynchronizationStatus", k)

RECURSIVE VariantMapsOver(_)
VariantMapsOver(K) ==
    IF K = {} THEN {EmptyMap}
    ELSE LET k == CHOOSE x \in K : TRUE
         IN  {Extend(m, k, v) : m \in VariantMapsOver(K \ {k}), v \in VariantValues(k)}

\* JSON objects for a SynchronizationStatus in either variant's spelling.
InputsVariant ==
    {SyncStatusExample} \cup
    UNION {VariantMapsOver(K) :
              K \in {S \in SUBSET (InputKeys("SynchronizationStatus")
                                      \cup VariantTimestampKeys \cup {"code"}) :
                        Cardinality(S) <= MaxKeys}}

\* JSON objects with structured values and date strings under fields that
\* no __init__ converts: the credentials of test_create_login_settings_from_dict,
\* a challenge with its creation date, a webhook notification with its data.
LoginSettingsExample ==
    [advice |-> PyStr("Benutzername: figo, PIN: figo"), auth_type |-> PyStr("pin"),
     bank_name |-> PyStr("Demobank"),
     credentials |->
         PyList(<<PyDict([label |-> PyStr("Benutzername")]),
                  PyDict([label |-> PyStr("PIN"), masked |-> PyBool(TRUE)])>>),
     supported |-> PyBool(TRUE)]

ChallengeExample ==
    [title |-> PyStr("Pin Eingabe"), label |-> PyStr("pin"), format |-> PyStr("Text"),
     data |-> PyStr("dummy"), created_at |-> PyStr(ISO_2018)]

WebhookNotificationExample ==
    [notification_id |-> PyStr("N1"), state |-> PyStr(""),
     data |-> PyDict([created_at |-> PyStr(ISO_2018), ids |-> PyList(<<PyInt(1)>>)])]

RawExamples(c) ==
    CASE c = "LoginSettings" -> {LoginSettingsExample}
      [] c = "Challenge" -> {ChallengeExample}
      [] c = "WebhookNotification" -> {WebhookNotificationExample}
      [] OTHER -> {}

InputsRaw(c) == Inputs(c) \cup RawExamples(c)

\* Keys of a JSON object that are also the name of __init__'s positional
\* parameter or of a read-only property of Account.
ReservedKeys == {"session", "payments"}

\* JSON objects that add such keys to the schema's.
InputsReservedKeys(c) == InputsOver(c, InputKeys(c) \cup ReservedKeys, MaxKeys)

-----------------------------------------------------------------------------
(* The caller: constructs a record, serialises it, feeds the serialisation *)
(* back to from_dict.                                                       *)

Unbuilt == [t |-> "unbuilt"]
NoCall == [t |-> "nocall"]

\* No dump() recorded yet.
NoDumpHeld ==
    /\ dumps = <<>>
    /\ aliased = FALSE

\* No accessor used yet, no call received by the session handle, no error
\* response at hand.
SessionIdle ==
    /\ naccess = 0
    /\ lastaccess = NoCall
    /\ ncalls = 0
    /\ lastcall = NoCall
    /\ returned = NoCall
    /\ payload = NoCall
    /\ exc = NoCall

Init ==
    /\ cls \in Classes
    /\ session \in Sessions
    /\ data \in Inputs(cls)
    /\ rec = Unbuilt
    /\ dumped = NoCall
    /\ rebuilt = NoCall
    /\ nassign = 0
    /\ SessionIdle
    /\ NoDumpHeld

InitAnyKeys ==
    /\ cls \in Classes
    /\ session \in Sessions
    /\ data \in InputsAnyKeys(cls)
    /\ rec = Unbuilt
    /\ dumped = NoCall
    /\ rebuilt = NoCall
    /\ nassign = 0
    /\ SessionIdle
    /\ NoDumpHeld

\* A from_dict that writes the converted values back into data_dict.
ConstructHydratingInPlace ==
    /\ rec = Unbuilt
    /\ rec' = from_dict(cls, session, PyDict(data))
    /\ data' = IF rec'.t = "obj" THEN rec'.attrs ELSE data
    /\ UNCHANGED <<cls, session, dumped, rebuilt, nassign, svars, evars, dvars>>

\* rec = cls.from_dict(session, data)
Construct ==
    /\ rec = Unbuilt
    /\ rec' = from_dict(cls, session, PyDict(data))
    /\ UNCHANGED <<cls, session, data, dumped, rebuilt, nassign, svars, evars, dvars>>

\* dumped = rec.dump()
DumpCall ==
    /\ rec.t = "obj"
    /\ dumped' = dump(rec)
    /\ rebuilt' = NoCall
    /\ UNCHANGED <<cls, session, data, rec, nassign, svars, evars, dvars>>

\* rebuilt = cls.from_dict(session, rec.dump())
RoundTrip ==
    /\ dumped.t = "dict"
    /\ rebuilt = NoCall
    /\ rebuilt' = from_dict(cls, session, dumped)
    /\ UNCHANGED <<cls, session, data, rec, dumped, nassign, svars, evars, dvars>>

Next == Construct \/ DumpCall \/ RoundTrip

Spec == Init /\ [][Next]_vars

\* The same caller, handed JSON objects whose keys may collide with names of
\* the class.
SpecAnyKeys == InitAnyKeys /\ [][Next]_vars

\* The caller sets attributes on a record it holds ("setting fields on a
\* Payment before submission"): any declared or undeclared field, any plain
\* value.
AssignKeys(c) == InputKeys(c)

AssignValues == PlainValues

\* Records built from the empty mapping or from one field that hydration
\* converts; the caller's assignments supply the rest.
SingleFieldInputs(c) ==
    {EmptyMap} \cup UNION {MapsOver(c, {k}) : k \in HydratableKeys(c)}

InitMutate ==
    /\ cls \in Classes
    /\ session \in Sessions
    /\ data \in SingleFieldInputs(cls)
    /\ rec = Unbuilt
    /\ dumped = NoCall
    /\ rebuilt = NoCall
    /\ nassign = 0
    /\ SessionIdle
    /\ NoDumpHeld

\* rec.k = v
SetAttr ==
    /\ rec.t = "obj"
    /\ nassign < MaxAssign
    /\ \E k \in AssignKeys(cls), v \in AssignValues : rec' = setattr(rec, k, v)
    /\ nassign' = nassign + 1
    /\ dumped' = NoCall
    /\ rebuilt' = NoCall
    /\ UNCHANGED <<cls, session, data, svars, evars, dvars>>

NextMutate == Construct \/ SetAttr \/ DumpCall

\* The caller that also assigns attributes between construction and dump.
SpecMutate == InitMutate /\ [][NextMutate]_vars

InitReservedKeys ==
    /\ cls \in Classes
    /\ session \in Sessions
    /\ data \in InputsReservedKeys(cls)
    /\ rec = Unbuilt
    /\ dumped = NoCall
    /\ rebuilt = NoCall
    /\ nassign = 0
    /\ SessionIdle
    /\ NoDumpHeld

\* The same caller, handed JSON objects with a key named session or payments.
SpecReservedKeys == InitReservedKeys /\ [][Next]_vars

InitAnyShape ==
    /\ cls \in Classes
    /\ session \in Sessions
    /\ data \in InputsAnyShape(cls)
    /\ rec = Unbuilt
    /\ dumped = NoCall
    /\ rebuilt = NoCall
    /\ nassign = 0
    /\ SessionIdle
    /\ NoDumpHeld

\* The same caller, handed JSON objects whose nested fields may hold values
\* of the wrong structure.
SpecAnyShape == InitAnyShape /\ [][Next]_vars

InitVariant ==
    /\ cls = "SynchronizationStatus"
    /\ session \in Sessions
    /\ data \in InputsVariant
    /\ rec = Unbuilt
    /\ dumped = NoCall
    /\ rebuilt = NoCall
    /\ nassign = 0
    /\ SessionIdle
    /\ NoDumpHeld

\* The same caller, handed a synchronization status in either spelling.
SpecVariant == InitVariant /\ [][Next]_vars

InitRaw ==
    /\ cls \in Classes
    /\ session \in Sessions
    /\ data \in InputsRaw(cls)
    /\ rec = Unbuilt
    /\ dumped = NoCall
    /\ rebuilt = NoCall
    /\ nassign = 0
    /\ SessionIdle
    /\ NoDumpHeld

\* The same caller, handed structured values under unconverted fields too.
SpecRaw == InitRaw /\ [][Next]_vars

MaxDumps == 2

\* Mappings of at most one key, and the examples of the tests.
DumpInputs(c) ==
    {EmptyMap} \cup Examples(c) \cup UNION {MapsOver(c, {k}) : k \in InputKeys(c)}

InitDumpTwice ==
    /\ cls \in Classes
    /\ session \in Sessions
    /\ data \in DumpInputs(cls)
    /\ rec = Unbuilt
    /\ dumped = NoCall
    /\ rebuilt = NoCall
    /\ nassign = 0
    /\ SessionIdle
    /\ NoDumpHeld

\* A dump() that hands out the instance dictionary itself.
DumpReturningInstanceDict ==
    /\ rec.t = "obj"
    /\ Len(dumps) < MaxDumps
    /\ dumped' = PyDict(rec.attrs)
    /\ dumps' = Append(dumps, dumped')
    /\ aliased' = TRUE
    /\ UNCHANGED <<cls, session, data, rec, rebuilt, nassign, svars, evars>>

\* dumped = rec.dump(), once more: the result is built in a dict that dump
\* creates (result = {}), and no statement of dump assigns to self.
Dump ==
    /\ rec.t = "obj"
    /\ Len(dumps) < MaxDumps
    /\ dumped' = dump(rec)
    /\ dumps' = Append(dumps, dumped')
    /\ aliased' = FALSE
    /\ UNCHANGED <<cls, session, data, rec, rebuilt, nassign, svars, evars>>

\* What the caller does to the mapping it got: sets a key, or empties it.
Modified(m, c) ==
    ({EmptyMap} \cup {Extend(m, k, PyStr("changed")) : k \in InputKeys(c)}) \ {m}

\* dumped[k] = v, or dumped.clear(): the record changes with it only when the
\* mapping is the record's instance dictionary.
ModifyDumped ==
    /\ dumps # <<>>
    /\ dumped.t = "dict"
    /\ dumped = dumps[Len(dumps)]
    /\ \E m \in Modified(dumped.map, cls) :
          /\ dumped' = PyDict(m)
          /\ rec' = IF aliased THEN [rec EXCEPT !.attrs = m] ELSE rec
    /\ UNCHANGED <<cls, session, data, rebuilt, nassign, svars, evars, dvars>>

NextDumpTwice == Construct \/ Dump \/ ModifyDumped

\* The caller that serialises a record repeatedly and edits what it got.
SpecDumpTwice == InitDumpTwice /\ [][NextDumpTwice]_vars

-----------------------------------------------------------------------------
(* Account's accessors, which call back into the session handle *)

MaxCalls == 2

\* Default values of the parameters count and offset.
DefaultCount == 1000
DefaultOffset == 0

\* What a call on the session handle comes back with: a result of the
\* moment, or an exception of the session's.
SessionOutcomes ==
    {PyList(<<>>), PyList(<<PyStr("r1")>>), Raise("FigoException")}

\* return self.session.<method>(*args): the handle stored on the record
\* receives one call; its result, or its exception, is the accessor's.
SessionCall(self, method, args) ==
    /\ ncalls' = ncalls + 1
    /\ \E outcome \in SessionOutcomes :
          /\ lastcall' = [handle |-> self.session, method |-> method,
                          args |-> args, outcome |-> outcome]
          /\ returned' = outcome

Account_payments(self) ==
    SessionCall(self, "get_payments", <<getattr(self, "account_id")>>)

Account_get_payment(self, payment_id) ==
    SessionCall(self, "get_payments", <<getattr(self, "account_id"), payment_id>>)

\* The property answering from the previous access when there was one.
Account_transactionsCached(self) ==
    IF lastaccess # NoCall
    THEN UNCHANGED <<ncalls, lastcall, returned>>
    ELSE SessionCall(self, "get_transactions", <<getattr(self, "account_id")>>)

Account_transactions(self) ==
    SessionCall(self, "get_transactions", <<getattr(self, "account_id")>>)

\* The call with count and offset in each other's place.
Account_get_transactionsSwapped(self, since, count, offset, include_pending) ==
    SessionCall(self, "get_transactions",
                <<getattr(self, "account_id"), since, offset, count, include_pending>>)

Account_get_transactions(self, since, count, offset, include_pending) ==
    SessionCall(self, "get_transactions",
                <<getattr(self, "account_id"), since, count, offset, include_pending>>)

Account_get_transaction(self, transaction_id) ==
    SessionCall(self, "get_transaction",
                <<getattr(self, "account_id"), transaction_id>>)

Account_securities(self) ==
    SessionCall(self, "get_securities", <<getattr(self, "account_id")>>)

Account_get_securities(self, since, count, offset, accounts) ==
    SessionCall(self, "get_securities",
                <<getattr(self, "account_id"), since, count, offset, accounts>>)

Account_get_security(self, security_id) ==
    SessionCall(self, "get_security", <<getattr(self, "account_id"), security_id>>)

\* The arguments a caller passes: any subset of an accessor's parameters,
\* each with a value that differs from the parameter's default.
CallerValue(p) ==
    CASE p = "since" -> PyStr("T1")
      [] p = "count" -> PyInt(10)
      [] p = "offset" -> PyInt(5)
      [] p = "include_pending" -> PyBool(TRUE)
      [] p = "accounts" -> PyList(<<PyStr("A1")>>)
      [] OTHER -> PyStr("X1")

Kwargs(params) == {[p \in K |-> CallerValue(p)] : K \in SUBSET params}

\* A parameter's binding in the call: the argument passed, else the default
\* of the def line.
Bind(kwargs, p, default) == IF p \in DOMAIN kwargs THEN kwargs[p] ELSE default

\* The account ids the caller assigns.
AccountIds == {PyStr("A1"), PyStr("A2"), PyNone}

DelegateInputs == InputsOver("Account", {"account_id"}, MaxKeys)

InitDelegate ==
    /\ cls = "Account"
    /\ session \in Sessions
    /\ data \in DelegateInputs
    /\ rec = Unbuilt
    /\ dumped = NoCall
    /\ rebuilt = NoCall
    /\ nassign = 0
    /\ SessionIdle
    /\ NoDumpHeld

\* rec.account_id = v
SetAccountId ==
    /\ rec.t = "obj"
    /\ nassign < MaxAssign
    /\ \E v \in AccountIds : rec' = setattr(rec, "account_id", v)
    /\ nassign' = nassign + 1
    /\ UNCHANGED <<cls, session, data, dumped, rebuilt, svars, evars, dvars>>

\* The caller uses one accessor of the Account it holds.
Accessible == rec.t = "obj" /\ rec.cls = "Account" /\ naccess < MaxCalls

Accessed(accessor, kwargs) ==
    /\ naccess' = naccess + 1
    /\ lastaccess' = [self |-> rec, accessor |-> accessor, kwargs |-> kwargs]
    /\ UNCHANGED <<cls, session, data, rec, dumped, rebuilt, nassign, evars, dvars>>

\* rec.payments
Payments ==
    /\ Accessible
    /\ Account_payments(rec)
    /\ Accessed("payments", EmptyMap)

\* rec.get_payment(payment_id)
GetPayment ==
    /\ Accessible
    /\ \E kwargs \in [{"payment_id"} -> {PyStr("P1")}] :
          /\ Account_get_payment(rec, kwargs["payment_id"])
          /\ Accessed("get_payment", kwargs)

\* rec.transactions
Transactions ==
    /\ Accessible
    /\ Account_transactions(rec)
    /\ Accessed("transactions", EmptyMap)

\* rec.get_transactions(...), with any of its arguments left out
GetTransactions ==
    /\ Accessible
    /\ \E kwargs \in Kwargs({"since", "count", "offset", "include_pending"}) :
          /\ Account_get_transactions(rec,
                    Bind(kwargs, "since", PyNone),
                    Bind(kwargs, "count", PyInt(DefaultCount)),
                    Bind(kwargs, "offset", PyInt(DefaultOffset)),
                    Bind(kwargs, "include_pending", PyBool(FALSE)))
          /\ Accessed("get_transactions", kwargs)

\* rec.get_transaction(transaction_id)
GetTransaction ==
    /\ Accessible
    /\ \E kwargs \in [{"transaction_id"} -> {PyStr("T1")}] :
          /\ Account_get_transaction(rec, kwargs["transaction_id"])
          /\ Accessed("get_transaction", kwargs)

\* rec.securities
Securities ==
    /\ Accessible
    /\ Account_securities(rec)
    /\ Accessed("securities", EmptyMap)

\* rec.get_securities(...), with any of its arguments left out
GetSecurities ==
    /\ Accessible
    /\ \E kwargs \in Kwargs({"since", "count", "offset", "accounts"}) :
          /\ Account_get_securities(rec,
                    Bind(kwargs, "since", PyNone),
                    Bind(kwargs, "count", PyInt(DefaultCount)),
                    Bind(kwargs, "offset", PyInt(DefaultOffset)),
                    Bind(kwargs, "accounts", PyNone))
          /\ Accessed("get_securities", kwargs)

\* rec.get_security(security_id)
GetSecurity ==
    /\ Accessible
    /\ \E kwargs \in [{"security_id"} -> {PyStr("S1")}] :
          /\ Account_get_security(rec, kwargs["security_id"])
          /\ Accessed("get_security", kwargs)

NextDelegate ==
    \/ Construct
    \/ SetAccountId
    \/ Payments
    \/ GetPayment
    \/ Transactions
    \/ GetTransactions
    \/ GetTransaction
    \/ Securities
    \/ GetSecurities
    \/ GetSecurity

\* The caller that builds an Account, assigns its account_id and uses its
\* accessors.
SpecDelegate == InitDelegate /\ [][NextDelegate]_vars

-----------------------------------------------------------------------------
(* FigoException.from_dict: an error response made into an exception *)

HTTP_NOT_ACCEPTABLE == 406
CLIENT_ERROR == 1000

OLD_ERROR_FORMAT ==
    PyDict([error |-> PyDict([code |-> PyNone, data |-> PyDict(EmptyMap),
                              description |-> PyNone, group |-> PyStr("unknown"),
                              message |-> PyStr("Unsupported language"),
                              name |-> PyStr("Not Acceptable")]),
            status |-> PyInt(HTTP_NOT_ACCEPTABLE)])

NEW_ERROR_FORMAT ==
    PyDict([error |-> PyDict([code |-> PyInt(CLIENT_ERROR), data |-> PyDict(EmptyMap),
                              description |-> PyStr("Unsupported language"),
                              group |-> PyStr("client")]),
            status |-> PyInt(HTTP_NOT_ACCEPTABLE)])

\* The values the API puts under a key of `error`.
ErrorValues(k) ==
    CASE k = "code" -> {PyNone, PyInt(CLIENT_ERROR)}
      [] k = "description" -> {PyNone, PyStr("Unsupported language")}
      [] k = "message" -> {PyNone, PyStr("Unsupported language")}
      [] k = "name" -> {PyNone, PyStr("Not Acceptable")}

ErrorKeys == {"code", "description", "message", "name"}

RECURSIVE ErrorMapsOver(_)
ErrorMapsOver(K) ==
    IF K = {} THEN {EmptyMap}
    ELSE LET k == CHOOSE x \in K : TRUE
         IN  {Extend(m, k, v) : m \in ErrorMapsOver(K \ {k}), v \in ErrorValues(k)}

ErrorPayloads ==
    {OLD_ERROR_FORMAT, NEW_ERROR_FORMAT} \cup
    {PyDict([error |-> PyDict(e), status |-> PyInt(st)]) :
        e \in UNION {ErrorMapsOver(K) : K \in SUBSET ErrorKeys},
        st \in {HTTP_NOT_ACCEPTABLE, HTTP_NOT_ACCEPTABLE + 1}}

FigoException(status, code, summary, message) ==
    [t |-> "FigoException", status |-> status, code |-> code,
     summary |-> summary, message |-> message]

\* The classification that takes the summary from `name` only.
FigoException_from_dictNameOnly(dictionary) ==
    LET error == dictionary.map["error"].map
        Field(k) == IF k \in DOMAIN error THEN error[k] ELSE PyNone
    IN  FigoException(dictionary.map["status"], Field("code"), Field("name"),
                      IF Field("message") # PyNone THEN Field("message")
                      ELSE Field("description"))

\* FigoException.from_dict(dictionary): the summary prefers `name` and falls
\* back to `description`; the message is `message`, else `description`.
FigoException_from_dict(dictionary) ==
    LET error == dictionary.map["error"].map
        Field(k) == IF k \in DOMAIN error THEN error[k] ELSE PyNone
    IN  FigoException(dictionary.map["status"], Field("code"),
                      IF Field("name") # PyNone THEN Field("name")
                      ELSE Field("description"),
                      IF Field("message") # PyNone THEN Field("message")
                      ELSE Field("description"))

InitClassify ==
    /\ cls = "User"
    /\ session \in Sessions
    /\ data = EmptyMap
    /\ rec = Unbuilt
    /\ dumped = NoCall
    /\ rebuilt = NoCall
    /\ nassign = 0
    /\ naccess = 0
    /\ lastaccess = NoCall
    /\ ncalls = 0
    /\ lastcall = NoCall
    /\ returned = NoCall
    /\ payload \in ErrorPayloads
    /\ exc = NoCall
    /\ NoDumpHeld

\* exc = FigoException.from_dict(payload)
Classify ==
    /\ payload # NoCall
    /\ exc = NoCall
    /\ exc' = FigoException_from_dict(payload)
    /\ UNCHANGED <<cls, session, data, rec, dumped, rebuilt, nassign, svars, payload,
                   dvars>>

NextClassify == Classify

\* The caller that turns an error response into an exception.
SpecClassify == InitClassify /\ [][NextClassify]_vars

-----------------------------------------------------------------------------
(* Properties *)

\* The allow-list declared on the type, as a set of names.
AllowList(c) == {DumpAttributes(c)[i] : i \in 1..Len(DumpAttributes(c))}

Present(m, k) == k \in DOMAIN m /\ m[k] # PyNone

\* C2: whatever keys the source mapping holds, keys that collide with names
\* of the class included, the keys of dump() of the constructed record are
\* among the allow-list declared on the type.
C2_DumpKeysWithinDeclaredAllowList ==
    dumped.t = "dict" => DOMAIN dumped.map \subseteq AllowList(cls)

\* C4: a User serialises to its full_name and language only: dump() never
\* holds id, email or created_at, and the mapping of the test (full_name,
\* language, email, id, created_at) dumps to exactly full_name and language.
C4_UserDump ==
    (cls = "User" /\ dumped # NoCall) =>
        /\ dumped.t = "dict"
        /\ DOMAIN dumped.map \cap {"id", "email", "created_at"} = {}
        /\ DOMAIN dumped.map \subseteq {"full_name", "language"}
        /\ data = UserExample =>
              dumped.map = [full_name |-> PyStr("John Doe"), language |-> PyStr("en")]

C4_Witness ==
    /\ cls = "User"
    /\ data = UserExample
    /\ rec.t = "obj"
    /\ dumped.t = "dict"

\* The calendar value a well-formed date string of the model denotes.
Denotes(string, value) ==
    \/ string = ISO_2012 /\ value = PyDateTime(2012, 4, 19, 17, 25, 54, "UTC")
    \/ string = ISO_2018 /\ value = PyDateTime(2018, 8, 30, 0, 0, 0, "UTC")
    \/ string = ISO_2018_SHORT /\ value = PyDateTime(2018, 8, 30, 0, 0, 0, "UTC")
    \/ string = LOOSE_2014 /\ value = PyDateTime(2014, 7, 29, 15, 0, 0, "naive")

IsWellFormedDate(v) == v.t = "str" /\ v.s \in WellFormedDates

\* A source value that no __init__ statement can fail on: absent, null, or a
\* well-formed date under a timestamp field.
Harmless(c, m, f) ==
    \/ ~Present(m, f)
    \/ f \in TimestampKeys(c) /\ IsWellFormedDate(m[f])

\* C6: for every declared timestamp field, a well-formed date string in the
\* source mapping (ISO-8601 with fractional seconds and Z, or
\* 'YYYY-MM-DD HH:MM:SS') is the parsed timestamp after from_dict and no
\* longer the string; an absent or null field reads as null, and neither
\* makes the construction raise.
C6_TimestampFieldsParsed ==
    rec # Unbuilt =>
        /\ (\A f \in HydratableKeys(cls) : Harmless(cls, data, f)) => rec.t = "obj"
        /\ rec.t = "obj" =>
              \A f \in TimestampKeys(cls) :
                  /\ (f \in DOMAIN data /\ IsWellFormedDate(data[f])) =>
                        /\ rec.attrs[f].t = "datetime"
                        /\ Denotes(data[f].s, rec.attrs[f])
                  /\ ~Present(data, f) => getattr(rec, f) = PyNone

C6_Witness ==
    /\ cls = "Security"
    /\ rec.t = "obj"
    /\ "trade_timestamp" \in DOMAIN data
    /\ data["trade_timestamp"] = PyStr(LOOSE_2014)
    /\ "modification_timestamp" \in DOMAIN data
    /\ data["modification_timestamp"] = PyStr(ISO_2018)
    /\ rec.attrs["modification_timestamp"] = PyDateTime(2018, 8, 30, 0, 0, 0, "UTC")
    /\ getattr(rec, "creation_timestamp") = PyNone

\* C8: for Transaction, a categories list of n mappings is after from_dict a
\* list of exactly n Category instances in the same order, the i-th built
\* from the i-th mapping and exposing its id, parent_id and name; an empty
\* list stays an empty list and does not become null.
C8_CategoriesHydratedInOrder ==
    (/\ cls = "Transaction"
     /\ rec # Unbuilt
     /\ "categories" \in DOMAIN data
     /\ data["categories"].t = "list") =>
        LET source == data["categories"].items
        IN  /\ DOMAIN data = {"categories"} => rec.t = "obj"
            /\ rec.t = "obj" =>
                  /\ rec.attrs["categories"].t = "list"
                  /\ Len(rec.attrs["categories"].items) = Len(source)
                  /\ \A i \in 1..Len(source) :
                        LET category == rec.attrs["categories"].items[i]
                        IN  /\ category.t = "obj"
                            /\ category.cls = "Category"
                            /\ \A a \in {"id", "parent_id", "name"} :
                                  getattr(category, a) =
                                      IF a \in DOMAIN source[i].map
                                      THEN source[i].map[a] ELSE PyNone

C8_Witness ==
    /\ cls = "Transaction"
    /\ rec.t = "obj"
    /\ "categories" \in DOMAIN data
    /\ data["categories"].t = "list"
    /\ Len(data["categories"].items) = 2
    /\ data["categories"].items[1] # data["categories"].items[2]
    /\ rec.attrs["categories"].items[1].attrs = data["categories"].items[1].map
    /\ rec.attrs["categories"].items[2].attrs = data["categories"].items[2].map

\* C7: a string under a declared timestamp field that cannot be parsed as a
\* date (the empty string included) makes from_dict raise a parse error; no
\* record is returned.
C7_UnparsableTimestampRaises ==
    rec # Unbuilt =>
        \A f \in TimestampKeys(cls) :
            (f \in DOMAIN data /\ data[f].t = "str" /\ data[f].s \notin WellFormedDates)
                => rec = Raise("ParserError")

\* C9: a nested-object field that is present and non-null in the source (any
\* mapping, the empty one included) is after from_dict an instance of the
\* designated type holding the parent's session handle, at every depth.
IsHydrated(v, c, s) == v.t = "obj" /\ v.cls = c /\ v.session = s

C9_NestedObjectsHydrated ==
    rec.t = "obj" =>
        \A f \in NestedKeys(cls) :
            Present(data, f) =>
                /\ IsHydrated(rec.attrs[f], NestedType(cls, f), session)
                /\ \A g \in NestedKeys(NestedType(cls, f)) :
                      Present(data[f].map, g) =>
                          IsHydrated(rec.attrs[f].attrs[g],
                                     NestedType(NestedType(cls, f), g), session)

\* C10: Sync.dump() puts under 'challenge' the challenge's own serialisation
\* (the challenge's non-null fields as a mapping, not the Challenge record)
\* when the challenge is non-null, leaves the key out when it is null, and
\* gives every other key as the generic allow-list dump does.
C10_SyncDumpEmbedsChallengeDump ==
    (cls = "Sync" /\ dumped # NoCall) =>
        LET challenge == getattr(rec, "challenge")
            held == IF challenge.t = "obj" THEN challenge.attrs
                    ELSE IF challenge.t = "dict" THEN challenge.map
                    ELSE EmptyMap
            own == [k \in {x \in ChallengeFields : Present(held, x)} |-> held[k]]
        IN  /\ dumped.t = "dict"
            /\ DOMAIN dumped.map \subseteq AllowList("Sync")
            /\ challenge # PyNone =>
                  /\ "challenge" \in DOMAIN dumped.map
                  /\ dumped.map["challenge"] = PyDict(own)
            /\ challenge = PyNone => "challenge" \notin DOMAIN dumped.map
            /\ \A k \in AllowList("Sync") \ {"challenge"} :
                  IF getattr(rec, k) = PyNone THEN k \notin DOMAIN dumped.map
                  ELSE k \in DOMAIN dumped.map /\ dumped.map[k] = getattr(rec, k)

C10_Witness ==
    /\ cls = "Sync"
    /\ rec.t = "obj"
    /\ getattr(rec, "challenge").t = "obj"
    /\ "extra" \in DOMAIN getattr(rec, "challenge").attrs
    /\ dumped.t = "dict"
    /\ dumped.map["challenge"] = PyDict([id |-> PyInt(1)])

\* The allow-listed, non-null fields a record holds; a list of records as
\* the list of theirs; any other value as itself.
AllowListedFields(v) ==
    [k \in {x \in AllowList(v.cls) : getattr(v, x) # PyNone} |-> getattr(v, k)]

ByAllowListedFields(v) ==
    IF v.t = "obj" THEN AllowListedFields(v)
    ELSE IF v.t = "list"
    THEN [i \in 1..Len(v.items) |->
            IF v.items[i].t = "obj" THEN AllowListedFields(v.items[i])
            ELSE v.items[i]]
    ELSE v

\* C5: round trip: whenever from_dict succeeds on a source mapping,
\* from_dict on the dump() of the record succeeds too and yields a record
\* with the same allow-listed field values (timestamps by parsed value).
C5_RoundTrip ==
    rebuilt # NoCall =>
        /\ rebuilt.t = "obj"
        /\ \A k \in AllowList(cls) :
              ByAllowListedFields(getattr(rebuilt, k)) =
                  ByAllowListedFields(getattr(rec, k))

IsConverted(c, m, k) == k \in HydratableKeys(c) /\ k \in DOMAIN m /\ Truthy(m[k])

CurrentAllowListed(r) ==
    PyDict([k \in {x \in AllowList(r.cls) : getattr(r, x) # PyNone} |-> getattr(r, k)])

\* C1 as claimed: for every record type, after from_dict and any assignments,
\* dump() is exactly the mapping of the allow-listed fields whose current
\* value is not null (false values such as 0, False, "" and [] included),
\* each with its current value; it is empty when the allow-list is empty or
\* every listed field is null.
C1_DumpIsCurrentAllowListed ==
    dumped # NoCall => dumped = CurrentAllowListed(rec)

\* C1 as amended: the same for every record type but Sync, and for Sync while
\* its challenge is false (null, or an empty or zero value); a Sync whose
\* challenge is a record dumps the challenge's own dump() under 'challenge'
\* in place of the record, and dump() raises when the true challenge is not
\* a record.
C1_DumpIsCurrentAllowListedButSyncChallenge ==
    dumped # NoCall =>
        LET challenge == getattr(rec, "challenge")
        IN  IF cls = "Sync" /\ Truthy(challenge)
            THEN IF challenge.t = "obj"
                 THEN /\ dumped.t = "dict"
                      /\ DOMAIN dumped.map = DOMAIN CurrentAllowListed(rec).map
                      /\ \A k \in DOMAIN dumped.map :
                            dumped.map[k] =
                                IF k = "challenge" THEN CurrentAllowListed(challenge)
                                ELSE getattr(rec, k)
                 ELSE dumped = Raise("AttributeError")
            ELSE /\ dumped = CurrentAllowListed(rec)
                 /\ (AllowList(cls) = {} \/ \A k \in AllowList(cls) : getattr(rec, k) = PyNone)
                       <=> dumped = PyDict(EmptyMap)

C1_Witness ==
    /\ cls = "Payment"
    /\ rec.t = "obj"
    /\ nassign = 1
    /\ "amount" \in DOMAIN rec.attrs
    /\ rec.attrs["amount"] = PyInt(0)
    /\ "amount" \notin DOMAIN data
    /\ dumped = PyDict([amount |-> PyInt(0)])

\* C11: construction is permissive: from_dict raises for no unknown and no
\* missing key (only a declared field's value can make it raise); a declared
\* field that is not supplied reads as null; every key of the mapping that
\* the type does not declare, whatever its name ('session', 'payments'), is
\* afterwards an attribute holding the mapping's value; and the record
\* stores the session handle handed to from_dict.
C11_ConstructionPermissive ==
    rec # Unbuilt =>
        /\ (\A f \in HydratableKeys(cls) : Harmless(cls, data, f)) => rec.t = "obj"
        /\ rec.t = "obj" =>
              /\ rec.session = session
              /\ \A f \in Fields(cls) \ DOMAIN data : getattr(rec, f) = PyNone
              /\ \A k \in DOMAIN data \ Fields(cls) : getattr(rec, k) = data[k]

\* C12: the accessors of Account delegate without caching: each use issues
\* exactly one call on the session handle the record stores, so k uses in a
\* row have issued k calls; the call's first argument is the record's
\* account_id at that moment; and the caller gets that call's outcome as it
\* is, the result of the moment or the session's exception.
C12_AccessorsDelegate ==
    /\ ncalls = naccess
    /\ naccess > 0 =>
          /\ lastcall.handle = lastaccess.self.session
          /\ lastcall.handle = session
          /\ lastcall.args[1] = getattr(lastaccess.self, "account_id")
          /\ returned = lastcall.outcome
          /\ lastcall.method =
                CASE lastaccess.accessor \in {"payments", "get_payment"} -> "get_payments"
                  [] lastaccess.accessor \in {"transactions", "get_transactions"} ->
                        "get_transactions"
                  [] lastaccess.accessor = "get_transaction" -> "get_transaction"
                  [] lastaccess.accessor \in {"securities", "get_securities"} ->
                        "get_securities"
                  [] lastaccess.accessor = "get_security" -> "get_security"

C12_Witness ==
    /\ naccess = 2
    /\ ncalls = 2
    /\ lastaccess.accessor = "transactions"
    /\ "account_id" \in DOMAIN data
    /\ data["account_id"] = PyStr("a")
    /\ lastcall.args = <<PyStr("A2")>>
    /\ returned = Raise("FigoException")

\* The argument the caller passed for parameter p, else the documented
\* default.
Passed(p, default) ==
    IF p \in DOMAIN lastaccess.kwargs THEN lastaccess.kwargs[p] ELSE default

\* C19: get_transactions forwards to session.get_transactions the arguments
\* (account_id, since, count, offset, include_pending) in that order, and
\* get_securities to session.get_securities (account_id, since, count,
\* offset, accounts); an argument the caller leaves out is forwarded as
\* since=None, count=1000, offset=0, include_pending=False, accounts=None;
\* the first argument is always the record's account_id.
C19_ForwardedArguments ==
    /\ (lastaccess # NoCall /\ lastaccess.accessor = "get_transactions") =>
          /\ lastcall.method = "get_transactions"
          /\ lastcall.args =
                <<getattr(lastaccess.self, "account_id"),
                  Passed("since", PyNone), Passed("count", PyInt(1000)),
                  Passed("offset", PyInt(0)), Passed("include_pending", PyBool(FALSE))>>
    /\ (lastaccess # NoCall /\ lastaccess.accessor = "get_securities") =>
          /\ lastcall.method = "get_securities"
          /\ lastcall.args =
                <<getattr(lastaccess.self, "account_id"),
                  Passed("since", PyNone), Passed("count", PyInt(1000)),
                  Passed("offset", PyInt(0)), Passed("accounts", PyNone)>>

C19_Witness ==
    /\ lastaccess # NoCall
    /\ lastaccess.accessor = "get_transactions"
    /\ DOMAIN lastaccess.kwargs = {"offset"}
    /\ nassign = 1
    /\ lastcall.method = "get_transactions"
    /\ lastcall.args = <<PyStr("A1"), PyNone, PyInt(1000), PyInt(5), PyBool(FALSE)>>

\* A value json.dumps can encode: a scalar, a list of such values, a mapping
\* from strings to such values.
RECURSIVE JSONSerializable(_)
JSONSerializable(v) ==
    CASE v.t \in {"None", "str", "int", "bool"} -> TRUE
      [] v.t = "list" -> \A i \in 1..Len(v.items) : JSONSerializable(v.items[i])
      [] v.t = "dict" -> \A k \in DOMAIN v.map : JSONSerializable(v.map[k])
      [] OTHER -> FALSE

\* C13: for every record built by from_dict from a decoded JSON object,
\* dump() returns a mapping whose values are JSON-serializable at every
\* depth: none is a record instance or a parsed timestamp.
C13_DumpIsJSONSerializable ==
    dumped # NoCall => (dumped.t = "dict" /\ JSONSerializable(dumped))

\* A non-null value of the wrong structure for nested field f of class c.
WrongShape(c, f, v) ==
    /\ v # PyNone
    /\ \/ f \in NestedKeys(c) /\ v.t # "dict"
       \/ /\ f \in NestedListKeys(c)
          /\ \/ v.t # "list"
             \/ \E i \in 1..Len(v.items) : v.items[i].t # "dict"

\* C14: when a nested-hydratable field holds a non-null value of the wrong
\* structure (a scalar, 0, False and the empty string included, where a
\* mapping is expected; a list of scalars where a list of mappings is
\* expected), from_dict raises, with a type error when that field is the
\* only one, and returns no record that keeps the value.
C14_ShapeMismatchRaises ==
    rec # Unbuilt =>
        \A f \in NestedKeys(cls) \cup NestedListKeys(cls) :
            (f \in DOMAIN data /\ WrongShape(cls, f, data[f])) =>
                /\ IsRaise(rec)
                /\ DOMAIN data = {f} => rec = Raise("TypeError")

\* C15: for every record type with an empty allow-list, and for each of
\* StandingOrder, WebhookNotification, SynchronizationStatus, Security,
\* Account and AccountBalance, dump() returns the empty mapping in every
\* state, after assignments too, while every field supplied at
\* construction stays readable as an attribute (with the source's value, or
\* its conversion, until the caller assigns it).
C15_EmptyAllowListDumpsEmpty ==
    LET EmptyAllowListTypes ==
            {"StandingOrder", "WebhookNotification", "SynchronizationStatus",
             "Security", "Account", "AccountBalance"}
    IN  ((cls \in EmptyAllowListTypes \/ AllowList(cls) = {}) /\ rec.t = "obj") =>
            /\ dumped # NoCall => dumped = PyDict(EmptyMap)
            /\ \A k \in DOMAIN data :
                  /\ k \in DOMAIN rec.attrs
                  /\ ~IsRaise(getattr(rec, k))
                  /\ nassign = 0 =>
                        IF IsConverted(cls, data, k) THEN getattr(rec, k) # data[k]
                        ELSE getattr(rec, k) = data[k]

C15_Witness ==
    /\ cls = "StandingOrder"
    /\ rec.t = "obj"
    /\ nassign = 1
    /\ "created_at" \in DOMAIN data
    /\ data["created_at"] = PyStr(ISO_2018)
    /\ rec.attrs = [created_at |-> PyDateTime(2018, 8, 30, 0, 0, 0, "UTC"),
                    amount |-> PyInt(0)]
    /\ dumped = PyDict(EmptyMap)

\* The two shapes of an error response.
LegacyShape(error) ==
    /\ {"name", "message", "description", "code"} \subseteq DOMAIN error
    /\ error["name"] # PyNone
    /\ error["message"] # PyNone

CurrentShape(error) ==
    /\ {"code", "description"} \subseteq DOMAIN error
    /\ DOMAIN error \cap {"name", "message"} = {}
    /\ error["description"] # PyNone

\* C16: the classification of an error response is a FigoException with a
\* status code, an error code (null when the response has none), a summary
\* and a message; for the legacy shape (name, message, nullable description
\* and code) the summary is error.name, for the current shape (code,
\* description, neither name nor message) the summary is error.description
\* and the error code is error.code.
C16_ClassificationNormalizesShapes ==
    exc # NoCall =>
        LET error == payload.map["error"].map
        IN  /\ exc.t = "FigoException"
            /\ DOMAIN exc = {"t", "status", "code", "summary", "message"}
            /\ exc.status = payload.map["status"]
            /\ exc.code.t \in {"int", "None"}
            /\ LegacyShape(error) =>
                  /\ exc.summary = error["name"]
                  /\ exc.code = error["code"]
            /\ CurrentShape(error) =>
                  /\ exc.summary = error["description"]
                  /\ exc.code = error["code"]
            /\ (LegacyShape(error) \/ CurrentShape(error)) =>
                  (exc.summary.t = "str" /\ exc.message.t = "str")

C16_Witness ==
    /\ payload = NEW_ERROR_FORMAT
    /\ exc # NoCall
    /\ exc.summary = PyStr("Unsupported language")
    /\ exc.code = PyInt(1000)
    /\ exc.status = PyInt(406)

\* C17: after SynchronizationStatus.from_dict, a date string present under
\* synced_at or succeeded_at, and likewise under sync_timestamp or
\* success_timestamp, is the parsed timestamp and no longer the string.
C17_BothVariantsParsed ==
    (cls = "SynchronizationStatus" /\ rec.t = "obj") =>
        \A f \in {"synced_at", "succeeded_at", "sync_timestamp", "success_timestamp"} :
            (f \in DOMAIN data /\ IsWellFormedDate(data[f])) =>
                /\ rec.attrs[f].t = "datetime"
                /\ Denotes(data[f].s, rec.attrs[f])

\* C18: a field without a hydration rule keeps the exact value of the source
\* mapping after from_dict, type included: LoginSettings.credentials stays
\* the list of raw mappings, Challenge.created_at the raw string,
\* WebhookNotification.data the raw value, and every scalar field its value.
C18_UnconvertedFieldsKeepSourceValue ==
    rec.t = "obj" =>
        \A k \in DOMAIN data \ HydratableKeys(cls) : getattr(rec, k) = data[k]

C18_Witness ==
    /\ cls = "LoginSettings"
    /\ data = LoginSettingsExample
    /\ rec.t = "obj"
    /\ rec.attrs["credentials"].t = "list"
    /\ rec.attrs["credentials"].items[2] =
          PyDict([label |-> PyStr("PIN"), masked |-> PyBool(TRUE)])
    /\ rec.attrs["supported"] = PyBool(TRUE)

\* C20: from_dict leaves its inputs as they were, whether it returns or
\* raises: the source mapping keeps its keys and values (date strings stay
\* strings, nested mappings and lists are not replaced by records), and the
\* session handle is neither called nor replaced; the same holds for the
\* mapping handed to the second from_dict of a round trip.
C20_FromDictLeavesInputsUnchanged ==
    [][/\ (rec = Unbuilt /\ rec' # Unbuilt) =>
             /\ data' = data
             /\ session' = session
             /\ ncalls' = ncalls
             /\ lastcall' = lastcall
             /\ rec'.t = "obj" => rec'.session = session
       /\ (rebuilt = NoCall /\ rebuilt' # NoCall) =>
             /\ dumped' = dumped
             /\ data' = data
             /\ session' = session
             /\ ncalls' = ncalls
             /\ lastcall' = lastcall]_vars

C20_Witness ==
    /\ cls = "Transaction"
    /\ rec.t = "obj"
    /\ DOMAIN data = {"created_at", "categories"}
    /\ data["created_at"] = PyStr(ISO_2018)
    /\ data["categories"] = PyList(<<PyDict([id |-> PyInt(1), name |-> PyStr("a")])>>)
    /\ rec.attrs["created_at"].t = "datetime"
    /\ rec.attrs["categories"].items[1].t = "obj"
    /\ ncalls = 0

\* C21: dump() is read-only, Sync's override included: a call changes no
\* attribute of the record or of its nested records; with no assignment in
\* between, it returns a mapping equal to the one the previous call
\* returned, also when the caller has edited that one meanwhile; and the
\* caller's edits of the top-level mapping it got leave the record as it was.
C21_DumpIsReadOnly ==
    [][/\ dumps' # dumps =>
             /\ rec' = rec
             /\ dumped' = dumps'[Len(dumps')]
             /\ dumps # <<>> => dumps'[Len(dumps')] = dumps[Len(dumps)]
       /\ (dumps' = dumps /\ dumped' # dumped /\ dumps # <<>>) => rec' = rec]_vars

C21_Witness ==
    /\ cls = "Sync"
    /\ rec.t = "obj"
    /\ getattr(rec, "challenge").t = "obj"
    /\ Len(dumps) = 2
    /\ dumps[1] = dumps[2]
    /\ dumps[2].t = "dict"
    /\ dumps[2].map["challenge"] = PyDict([id |-> PyInt(1)])
    /\ dumped = PyDict([challenge |-> PyStr("changed")])

=============================================================================
